---- MODULE Spec2Model ----
(***************************************************************************)
(* Verification model of the FD calculator component                       *)
(* (src/src/components/fd-calculator.tsx): the zod form schema, the        *)
(* react-hook-form submission path and the compound-interest computation   *)
(* of onSubmit.                                                            *)
(*                                                                         *)
(* JavaScript numbers are IEEE-754 binary64 values.  The model keeps the   *)
(* structure of that arithmetic (round to nearest, ties to even, gradual   *)
(* underflow, overflow to Infinity, NaN) on a scaled-down format: a        *)
(* significand of Prec bits instead of 53, and exponents in                *)
(* MinExp..MaxExp instead of -1074..971.                                   *)
(***************************************************************************)
EXTENDS Integers, Sequences, FiniteSets, TLC

VARIABLES form, submitted, errors, results

vars == <<form, submitted, errors, results>>

(***************************************************************************)
(* Bounds of the model.                                                    *)
(***************************************************************************)
\* Bits of the significand of the scaled-down number format (binary64: 53).
Prec == 5
\* Largest exponent of the unit in the last place (binary64: 971).
MaxExp == 20
\* Smallest exponent of the unit in the last place (binary64: -1074).
MinExp == -MaxExp

(***************************************************************************)
(* Numbers: src/src/components/fd-calculator.tsx works on JavaScript       *)
(* numbers.  A number is NaN, +Infinity, -Infinity or s * m * 2^e with     *)
(* s in {1,-1}, 0 <= m < 2^Prec, MinExp <= e <= MaxExp, and                *)
(* m >= 2^(Prec-1) unless e = MinExp (a subnormal, or zero).               *)
(***************************************************************************)
Pow2(n) == IF n <= 0 THEN 1 ELSE 2 ^ n

\* The number of bits of x, for 0 <= x < 2^30.
BitLen(x) == CHOOSE n \in 0..30 : x < 2 ^ n /\ (n = 0 \/ 2 ^ (n - 1) <= x)

Max(a, b) == IF a >= b THEN a ELSE b

Min(a, b) == IF a <= b THEN a ELSE b

NaN == [k |-> "nan", s |-> 1, m |-> 0, e |-> 0]

Inf(s) == [k |-> "inf", s |-> s, m |-> 0, e |-> 0]

Zero == [k |-> "fin", s |-> 1, m |-> 0, e |-> MinExp]

IsNaN(a) == a.k = "nan"

IsInf(a) == a.k = "inf"

IsFinite(a) == a.k = "fin"

IsZero(a) == a.k = "fin" /\ a.m = 0

\* The number s * m * 2^e, m already within Prec bits: overflow gives Infinity.
Pack(s, m, e) ==
  IF m = 0 THEN Zero
  ELSE IF m = Pow2(Prec)
       THEN (IF e + 1 > MaxExp THEN Inf(s)
             ELSE [k |-> "fin", s |-> s, m |-> Pow2(Prec - 1), e |-> e + 1])
       ELSE (IF e > MaxExp THEN Inf(s)
             ELSE [k |-> "fin", s |-> s, m |-> m, e |-> e])

\* Round to nearest, ties to even: the number nearest to s * x, where
\* x = sig * 2^exp when ~sticky and sig * 2^exp < x < (sig + 1) * 2^exp
\* when sticky.
Round(s, sig, exp, sticky) ==
  IF sig = 0 THEN Zero
  ELSE LET L  == BitLen(sig)
           et == Max(exp + L - Prec, MinExp)
           sh == et - exp
       IN IF sh <= 0 THEN Pack(s, sig * Pow2(-sh), et)
          ELSE IF sh > L + 1 THEN Zero
          ELSE LET q    == sig \div Pow2(sh)
                   rem  == sig % Pow2(sh)
                   half == Pow2(sh - 1)
                   up   == \/ rem > half
                           \/ rem = half /\ (sticky \/ q % 2 = 1)
               IN Pack(s, IF up THEN q + 1 ELSE q, et)

\* The number nearest to s * (num / den) * 2^exp, for num >= 0 and den > 0:
\* the quotient is taken to at least Prec + 2 bits, the remainder is sticky.
RoundRat(s, num, den, exp) ==
  IF num = 0 THEN Zero
  ELSE LET g == Max(0, BitLen(den) + Prec + 2 - BitLen(num))
           n == num * Pow2(g)
       IN Round(s, n \div den, exp - g, n % den # 0)

\* |a| < |b|, |a| = |b| for finite numbers.
MagLt(a, b) ==
  IF a.m = 0 \/ b.m = 0 THEN a.m = 0 /\ b.m # 0
  ELSE LET la == BitLen(a.m) + a.e
           lb == BitLen(b.m) + b.e
       IN \/ la < lb
          \/ la = lb /\ a.m * Pow2(a.e - Min(a.e, b.e)) < b.m * Pow2(b.e - Min(a.e, b.e))

\* a < b, as JavaScript's < on numbers (false when either is NaN).
Lt(a, b) ==
  /\ ~IsNaN(a) /\ ~IsNaN(b)
  /\ a # b
  /\ CASE IsInf(a) -> a.s = -1
       [] IsInf(b) -> b.s = 1
       [] a.s # b.s -> a.s = -1 /\ ~(IsZero(a) /\ IsZero(b))
       [] a.s = 1 -> MagLt(a, b)
       [] OTHER -> MagLt(b, a)

\* a <= b, a > b, a >= b as JavaScript's operators.
Le(a, b) == ~IsNaN(a) /\ ~IsNaN(b) /\ ~Lt(b, a)

Gt(a, b) == Lt(b, a)

Ge(a, b) == Le(b, a)

Neg(a) == IF IsNaN(a) \/ IsZero(a) THEN a ELSE [a EXCEPT !.s = -a.s]

\* |a| + |b| and |a| - |b| (for |a| >= |b|) of finite numbers, signed s.
MagAdd(s, a, b) ==
  LET hi == IF a.e >= b.e THEN a ELSE b
      lo == IF a.e >= b.e THEN b ELSE a
      d  == hi.e - lo.e
  IN IF d <= 2 * Prec + 3
     THEN Round(s, hi.m * Pow2(d) + lo.m, lo.e, FALSE)
     ELSE Round(s, hi.m * 4, hi.e - 2, lo.m # 0)

MagSub(s, a, b) ==
  LET d == a.e - b.e
  IN IF d <= 2 * Prec + 3
     THEN Round(s, a.m * Pow2(d) - b.m, b.e, FALSE)
     ELSE IF b.m = 0 THEN a
     ELSE Round(s, a.m * 4 - 1, a.e - 2, TRUE)

\* a + b of JavaScript numbers.
Add(a, b) ==
  CASE IsNaN(a) \/ IsNaN(b) -> NaN
    [] IsInf(a) /\ IsInf(b) -> IF a.s = b.s THEN a ELSE NaN
    [] IsInf(a) -> a
    [] IsInf(b) -> b
    [] a.s = b.s -> MagAdd(a.s, a, b)
    [] MagLt(a, b) -> MagSub(b.s, b, a)
    [] OTHER -> MagSub(a.s, a, b)

\* a - b of JavaScript numbers.
Sub(a, b) == Add(a, Neg(b))

\* a * b of JavaScript numbers.
Mul(a, b) ==
  CASE IsNaN(a) \/ IsNaN(b) -> NaN
    [] IsInf(a) \/ IsInf(b) ->
         IF IsZero(a) \/ IsZero(b) THEN NaN ELSE Inf(a.s * b.s)
    [] OTHER -> Round(a.s * b.s, a.m * b.m, a.e + b.e, FALSE)

\* a / b of JavaScript numbers.
Div(a, b) ==
  CASE IsNaN(a) \/ IsNaN(b) -> NaN
    [] IsInf(a) -> IF IsInf(b) THEN NaN ELSE Inf(a.s * b.s)
    [] IsInf(b) -> Zero
    [] IsZero(b) -> IF IsZero(a) THEN NaN ELSE Inf(a.s * b.s)
    [] OTHER -> RoundRat(a.s * b.s, a.m, b.m, a.e - b.e)

\* The number a whole-number literal n >= 0 denotes.
Num(n) == RoundRat(1, n, 1, 0)

One == Num(1)

(***************************************************************************)
(* Math.pow.  ECMAScript leaves the value of Math.pow(base, exponent) for  *)
(* finite arguments to the implementation ("an implementation-             *)
(* approximated value"); the model takes the correctly rounded power,      *)
(* computed exactly on a multi-limb natural number and then rounded once.  *)
(* Exponents are whole numbers here: the tenures the model draws are whole *)
(* numbers of years, so n * years is whole.                                *)
(***************************************************************************)
Limb == Pow2(12)

\* The sum of a[i] * b[j + 1 - i] for i in lo..hi: one column of a * b.
RECURSIVE Column(_, _, _, _, _)
Column(a, b, j, lo, hi) ==
  IF lo > hi THEN 0 ELSE a[lo] * b[j + 1 - lo] + Column(a, b, j, lo + 1, hi)

\* The limbs, lowest first, of the natural number with columns cols.
RECURSIVE Carry(_, _)
Carry(cols, carry) ==
  IF cols = <<>> THEN (IF carry = 0 THEN <<>> ELSE <<carry>>)
  ELSE LET t == Head(cols) + carry
       IN <<t % Limb>> \o Carry(Tail(cols), t \div Limb)

\* a * b on limbs.
MulBig(a, b) ==
  Carry([j \in 1..(Len(a) + Len(b) - 1) |->
           Column(a, b, j, Max(1, j + 1 - Len(b)), Min(j, Len(a)))], 0)

\* f^k as limbs, for k >= 1, by squaring.
RECURSIVE BigPow(_, _)
BigPow(f, k) ==
  IF k = 1 THEN <<f>>
  ELSE LET h  == BigPow(f, k \div 2)
           sq == MulBig(h, h)
       IN IF k % 2 = 1 THEN MulBig(sq, <<f>>) ELSE sq

\* The whole number a finite y denotes, and whether it denotes one.
IsWhole(y) == IsFinite(y) /\ (y.e >= 0 \/ y.m % Pow2(-y.e) = 0)

WholeOf(y) == IF y.e >= 0 THEN y.m * Pow2(y.e) ELSE y.m \div Pow2(-y.e)

\* x^k certainly exceeds every finite number: for 1 < x < 2, x^k >= 2^(k(x-1)),
\* and for x >= 2, x^k >= 2^k.
PowOverflows(x, k) ==
  LET top == BitLen(x.m) + x.e
  IN \/ top >= 2 /\ k >= MaxExp + Prec + 1
     \/ /\ top = 1 /\ x.e = 1 - Prec
        /\ k * (x.m - Pow2(Prec - 1)) >= (MaxExp + Prec + 1) * Pow2(Prec - 1)

\* The number nearest to x^k for finite x # 0 and a whole number k >= 1.
PowWhole(x, k) ==
  LET s == IF x.s = -1 /\ k % 2 = 1 THEN -1 ELSE 1
  IN IF x = One THEN One
     ELSE IF PowOverflows(x, k) THEN Inf(s)
     ELSE LET p == BigPow(x.m, k)
              n == Len(p)
          IN IF n = 1 THEN Round(s, p[1], x.e * k, FALSE)
             ELSE Round(s, p[n] * Limb + p[n - 1], x.e * k + 12 * (n - 2),
                        \E i \in 1..(n - 2) : p[i] # 0)

\* Math.pow(x, y) for y >= 0 whole or infinite, or NaN.
Pow(x, y) ==
  CASE IsNaN(y) -> NaN
    [] IsZero(y) -> One
    [] IsNaN(x) -> NaN
    [] IsInf(y) ->
         IF IsInf(x) \/ MagLt(One, x) THEN (IF y.s = 1 THEN Inf(1) ELSE Zero)
         ELSE IF MagLt(x, One) THEN (IF y.s = 1 THEN Zero ELSE Inf(1))
         ELSE NaN
    [] IsInf(x) -> IF y.s = 1 THEN x ELSE Zero
    [] IsZero(x) -> IF y.s = 1 THEN Zero ELSE Inf(1)
    [] IsWhole(y) /\ y.s = 1 -> PowWhole(x, WholeOf(y))

(***************************************************************************)
(* Raw field values: what the form hands to the schema.  A numeric field   *)
(* holds the empty string, a non-numeric text, the text "Infinity" or a    *)
(* decimal numeral, given by the exact value num / den it denotes; the     *)
(* default values are number literals.                                     *)
(***************************************************************************)
Empty == [t |-> "empty", neg |-> FALSE, num |-> 0, den |-> 1]

Text == [t |-> "text", neg |-> FALSE, num |-> 0, den |-> 1]

Infinity == [t |-> "inf", neg |-> FALSE, num |-> 0, den |-> 1]

Dec(num, den) == [t |-> "dec", neg |-> FALSE, num |-> num, den |-> den]

NegDec(num, den) == [t |-> "dec", neg |-> TRUE, num |-> num, den |-> den]

\* A coercion that takes "" to NaN, as parseFloat would.
NumberOfEmptyIsNaN(raw) ==
  CASE raw.t = "empty" -> NaN
    [] raw.t = "text" -> NaN
    [] raw.t = "inf" -> Inf(IF raw.neg THEN -1 ELSE 1)
    [] raw.t = "dec" -> RoundRat(IF raw.neg THEN -1 ELSE 1, raw.num, raw.den, 0)

\* Number(raw), the coercion of z.coerce.number(): "" is 0, a non-numeric
\* text is NaN, a numeral is the number nearest to the value it denotes.
Number(raw) ==
  CASE raw.t = "empty" -> Zero
    [] raw.t = "text" -> NaN
    [] raw.t = "inf" -> Inf(IF raw.neg THEN -1 ELSE 1)
    [] raw.t = "dec" -> RoundRat(IF raw.neg THEN -1 ELSE 1, raw.num, raw.den, 0)

(***************************************************************************)
(* formSchema (zod).                                                       *)
(***************************************************************************)
\* .positive(): the value must be > 0.
positive == [kind |-> "min", value |-> Zero, inclusive |-> FALSE]

\* A maximum of 100 that excludes 100 itself.
max100Exclusive == [kind |-> "max", value |-> Num(100), inclusive |-> FALSE]

\* .max(100): the value must be <= 100.
max100 == [kind |-> "max", value |-> Num(100), inclusive |-> TRUE]

CompoundingValues == {"annually", "half-yearly", "quarterly", "monthly"}

formSchema ==
  [principal |-> <<positive>>,
   rate |-> <<positive, max100>>,
   years |-> <<positive>>,
   compounding |-> CompoundingValues]

\* Whether one check of a ZodNumber fails on data, and the issue it raises.
CheckFails(data, check) ==
  IF check.kind = "min"
  THEN (IF check.inclusive THEN Lt(data, check.value) ELSE Le(data, check.value))
  ELSE (IF check.inclusive THEN Gt(data, check.value) ELSE Ge(data, check.value))

CheckCode(check) == IF check.kind = "min" THEN "too_small" ELSE "too_big"

\* The issues of the checks of a ZodNumber, every check tried, in order.
RECURSIVE CheckIssues(_, _)
CheckIssues(data, checks) ==
  IF checks = <<>> THEN <<>>
  ELSE (IF CheckFails(data, Head(checks)) THEN <<CheckCode(Head(checks))>> ELSE <<>>)
       \o CheckIssues(data, Tail(checks))

\* z.coerce.number() with its checks: coerce, reject NaN as invalid_type,
\* else run the checks.
ZodNumber(raw, checks) ==
  LET data == Number(raw)
  IN [data |-> data,
      issues |-> IF IsNaN(data) THEN <<"invalid_type">> ELSE CheckIssues(data, checks)]

\* A z.enum that falls back to "annually" on an unknown token
\* (as .catch("annually") would).
ZodEnumWithDefault(raw, values) ==
  [data |-> IF raw \in values THEN raw ELSE "annually",
   issues |-> <<>>]

\* z.enum([...]): the token itself, no coercion.
ZodEnum(raw, values) ==
  [data |-> raw,
   issues |-> IF raw \in values THEN <<>> ELSE <<"invalid_enum_value">>]

\* The issues of one field, each with the field as its path.
AtPath(path, issues) ==
  [i \in 1..Len(issues) |-> [path |-> path, code |-> issues[i]]]

\* A fail-fast object: only the issues of the first field that has any.
ObjectIssuesFailFast(p, r, y, c) ==
  IF p # <<>> THEN AtPath("principal", p)
  ELSE IF r # <<>> THEN AtPath("rate", r)
  ELSE IF y # <<>> THEN AtPath("years", y)
  ELSE AtPath("compounding", c)

\* z.object: the issues of all four fields together, in the order of the shape.
ObjectIssues(p, r, y, c) ==
  AtPath("principal", p) \o AtPath("rate", r) \o AtPath("years", y)
    \o AtPath("compounding", c)

\* formSchema.safeParse(raw): the parsed values and the issues.
SafeParse(raw) ==
  LET p == ZodNumber(raw.principal, formSchema.principal)
      r == ZodNumber(raw.rate, formSchema.rate)
      y == ZodNumber(raw.years, formSchema.years)
      c == ZodEnum(raw.compounding, formSchema.compounding)
  IN [data |-> [principal |-> p.data, rate |-> r.data, years |-> y.data,
                compounding |-> c.data],
      issues |-> ObjectIssues(p.issues, r.issues, y.issues, c.issues)]

\* zodResolver(formSchema): the field errors (the first issue of each field)
\* and the parsed values.
zodResolver(raw) ==
  LET parsed == SafeParse(raw)
      iss == parsed.issues
  IN [values |-> parsed.data,
      errors |-> {iss[i] : i \in {j \in 1..Len(iss) :
                                    \A h \in 1..(j - 1) : iss[h].path # iss[j].path}}]

(***************************************************************************)
(* FdCalculator: the results state and onSubmit.                           *)
(***************************************************************************)
Null == [null |-> TRUE]

\* A table with a slip in the quarterly entry.
compoundingPeriodsQuarterlyThree ==
  [c \in CompoundingValues |->
     CASE c = "monthly" -> 12
       [] c = "quarterly" -> 3
       [] c = "half-yearly" -> 2
       [] c = "annually" -> 1]

compoundingPeriods ==
  [c \in CompoundingValues |->
     CASE c = "monthly" -> 12
       [] c = "quarterly" -> 4
       [] c = "half-yearly" -> 2
       [] c = "annually" -> 1]

\* An onSubmit that computes the interest on its own, principal * (pow - 1),
\* instead of as maturityValue - principal.
onSubmitInterestOnItsOwn(values) ==
  LET principal == values.principal
      n == Num(compoundingPeriods[values.compounding])
      r == Div(values.rate, Num(100))
      growth == Pow(Add(One, Div(r, n)), Mul(n, values.years))
  IN [maturityValue |-> Mul(principal, growth),
      totalInterest |-> Mul(principal, Sub(growth, One)),
      principal |-> principal]

\* An onSubmit with a sign slip in the periodic growth factor, 1 - r / n.
onSubmitDiscounting(values) ==
  LET principal == values.principal
      n == Num(compoundingPeriods[values.compounding])
      r == Div(values.rate, Num(100))
      maturityValue == Mul(principal, Pow(Sub(One, Div(r, n)), Mul(n, values.years)))
  IN [maturityValue |-> maturityValue,
      totalInterest |-> Sub(maturityValue, principal),
      principal |-> principal]

\* onSubmit(values): the value handed to setResults.
onSubmit(values) ==
  LET principal == values.principal
      n == Num(compoundingPeriods[values.compounding])
      r == Div(values.rate, Num(100))
      maturityValue == Mul(principal, Pow(Add(One, Div(r, n)), Mul(n, values.years)))
      totalInterest == Sub(maturityValue, principal)
  IN [maturityValue |-> maturityValue,
      totalInterest |-> totalInterest,
      principal |-> principal]

\* A handleSubmit that clears the results when the resolver reports an error.
HandleSubmitClearing(raw) ==
  LET res == zodResolver(raw)
  IN /\ submitted' = TRUE
     /\ errors' = res.errors
     /\ results' = IF res.errors = {} THEN onSubmit(res.values) ELSE Null

\* form.handleSubmit(onSubmit) on the raw field values: onSubmit runs only when
\* the resolver reports no error.
HandleSubmit(raw) ==
  LET res == zodResolver(raw)
  IN /\ submitted' = TRUE
     /\ errors' = res.errors
     /\ results' = IF res.errors = {} THEN onSubmit(res.values) ELSE results

defaultValues ==
  [principal |-> Dec(100000, 1), rate |-> Dec(13, 2), years |-> Dec(5, 1),
   compounding |-> "annually"]

(***************************************************************************)
(* The values the model draws for the fields.                              *)
(***************************************************************************)
\* Longest tenure, in years, of the computation checks.
MaxYears == 5

Forms(P, R, Y, C) ==
  {[principal |-> p, rate |-> r, years |-> y, compounding |-> c] :
     p \in P, r \in R, y \in Y, c \in C}

\* Sequences of submissions.
SeqForms ==
  Forms({Empty, Dec(100000, 1), Dec(250, 1)},
        {Dec(150, 1), Dec(13, 2)},
        {Dec(0, 1), Dec(5, 1), Dec(1, 1)},
        {"annually", "monthly", "weekly"})

\* Single submissions, every kind of raw value in every field.
ValForms ==
  Forms({Empty, Text, Dec(0, 1), NegDec(5, 1), Infinity, Dec(100000, 1)},
        {Empty, Text, Dec(0, 1), NegDec(5, 1), Dec(150, 1), Dec(100, 1),
         Dec(13, 2), Infinity},
        {Empty, Text, Dec(0, 1), NegDec(5, 1), Infinity, Dec(5, 1)},
        CompoundingValues \cup {"weekly"})

\* Single submissions of valid values, for the computation.
NumForms ==
  Forms({Dec(100000, 1), Dec(250, 1), Dec(12345, 1), Dec(1, 10), Infinity},
        {Dec(13, 2), Dec(100, 1), Dec(29, 4), Dec(1, 2), Dec(1, 100)},
        {Dec(y, 1) : y \in 1..MaxYears} \cup {Infinity},
        CompoundingValues)

(***************************************************************************)
(* The component as a state machine: the form starts with its default      *)
(* values and no results; each step is one submission of the form.         *)
(***************************************************************************)
Init ==
  /\ form = defaultValues
  /\ submitted = FALSE
  /\ errors = {}
  /\ results = Null

\* The user sets the fields to raw and presses Calculate.
Submit(raw) ==
  /\ form' = raw
  /\ HandleSubmit(raw)

Next == \E raw \in SeqForms : Submit(raw)

Spec == Init /\ [][Next]_vars

(***************************************************************************)
(* Validation and computation as functions of one form: any form of the    *)
(* set, submitted once.                                                    *)
(***************************************************************************)
SubmitForm ==
  /\ ~submitted
  /\ form' = form
  /\ HandleSubmit(form)

InitValidate ==
  /\ form \in ValForms
  /\ submitted = FALSE
  /\ errors = {}
  /\ results = Null

SpecValidate == InitValidate /\ [][SubmitForm]_vars

InitCompute ==
  /\ form \in NumForms
  /\ submitted = FALSE
  /\ errors = {}
  /\ results = Null

SpecCompute == InitCompute /\ [][SubmitForm]_vars

(***************************************************************************)
(* Vocabulary of the properties.                                           *)
(***************************************************************************)
NumericFields == {"principal", "rate", "years"}

Fields == NumericFields \cup {"compounding"}

\* The field rules as the specification states them, on the coerced values.
RulePasses(path, raw) ==
  CASE path = "principal" -> Gt(Number(raw.principal), Zero)
    [] path = "rate" -> Gt(Number(raw.rate), Zero) /\ Le(Number(raw.rate), Num(100))
    [] path = "years" -> Gt(Number(raw.years), Zero)
    [] path = "compounding" ->
         raw.compounding \in {"annually", "half-yearly", "quarterly", "monthly"}

AllRulesPass(raw) == \A path \in Fields : RulePasses(path, raw)

HasError(path, code) == [path |-> path, code |-> code] \in errors

ErrorsAt(path) == {err \in errors : err.path = path}

\* A submission was accepted and onSubmit stored its result.
Computed == submitted /\ errors = {} /\ results # Null

\* C1: a submission yields a result if and only if all four field rules pass
\* (principal > 0, 0 < rate <= 100, tenure > 0, frequency one of the four
\* tokens); otherwise it yields a non-empty set of field-scoped errors and no
\* result, and an unknown frequency token is rejected, never defaulted.
C1_ResultIffRulesPass ==
  submitted =>
    /\ (results # Null) <=> AllRulesPass(form)
    /\ (errors = {}) <=> AllRulesPass(form)
    /\ \A err \in errors : err.path \in Fields /\ ~RulePasses(err.path, form)
    /\ form.compounding \notin CompoundingValues =>
         /\ results = Null
         /\ HasError("compounding", "invalid_enum_value")

\* An unknown token with three valid numeric fields was submitted and rejected.
C1_Witness ==
  /\ submitted
  /\ form.compounding = "weekly"
  /\ \A path \in NumericFields : RulePasses(path, form)
  /\ errors # {}
  /\ results = Null

\* The errors one field produces when it is validated on its own.
FieldErrors(path, raw) ==
  LET issues == IF path = "compounding"
                THEN ZodEnum(raw[path], formSchema[path]).issues
                ELSE ZodNumber(raw[path], formSchema[path]).issues
  IN IF issues = <<>> THEN {} ELSE {[path |-> path, code |-> issues[1]]}

\* C2: validation is not fail-fast: the errors of a submission are the union
\* of the errors each field produces on its own, so every violated field is
\* reported whatever the other fields hold.
C2_ErrorsOfAllFields ==
  submitted =>
    /\ errors = UNION {FieldErrors(path, form) : path \in Fields}
    /\ \A path \in Fields : ~RulePasses(path, form) => ErrorsAt(path) # {}

\* All four fields were violated at once, and four errors came back.
C2_Witness ==
  /\ submitted
  /\ \A path \in Fields : ~RulePasses(path, form)
  /\ Cardinality(errors) = 4

\* C5 (as claimed): a principal, tenure or rate that is not a finite number is
\* rejected with an error on its field, and never reaches the computation.
C5_NonFiniteRejected ==
  submitted =>
    \A path \in NumericFields :
      ~IsFinite(Number(form[path])) => ErrorsAt(path) # {} /\ results = Null

\* C6: rate <= 0 is rejected as not positive (too_small), rate > 100 as out of
\* range (too_big), rate = 100 is accepted, and neither error is reported for
\* a rate within (0, 100].
C6_RateBounds ==
  submitted =>
    LET v == Number(form.rate)
    IN /\ HasError("rate", "too_small") <=> Le(v, Zero)
       /\ HasError("rate", "too_big") <=> Gt(v, Num(100))
       /\ v = Num(100) => ErrorsAt("rate") = {}
       /\ (Gt(v, Zero) /\ Le(v, Num(100))) => ErrorsAt("rate") = {}

\* A rate of exactly 100 was submitted and raised no error.
C6_Witness ==
  /\ submitted
  /\ Number(form.rate) = Num(100)
  /\ ErrorsAt("rate") = {}

\* C7 (as claimed): a numeric field holding a non-numeric or an empty value is
\* rejected with NOT_A_NUMBER (invalid_type) on that field.
C7_EmptyOrTextIsNotANumber ==
  submitted =>
    \A path \in NumericFields :
      form[path].t \in {"empty", "text"} => HasError(path, "invalid_type")

\* C7 (amended): a non-numeric value is rejected with NOT_A_NUMBER on its
\* field; an empty value is coerced to 0 and rejected with the not-positive
\* error (too_small) of its field; both whatever the other fields hold.
C7_TextIsNotANumberEmptyIsNotPositive ==
  submitted =>
    \A path \in NumericFields :
      /\ form[path].t = "text" => ErrorsAt(path) = {[path |-> path, code |-> "invalid_type"]}
      /\ form[path].t = "empty" => ErrorsAt(path) = {[path |-> path, code |-> "too_small"]}

\* An empty principal and a non-numeric rate were submitted together.
C7_Witness ==
  /\ submitted
  /\ form.principal.t = "empty"
  /\ form.rate.t = "text"
  /\ HasError("principal", "too_small")
  /\ HasError("rate", "invalid_type")

\* The parsed (coerced) values of a raw form.
Values(raw) == SafeParse(raw).data

\* Periods per year of each frequency token, as the specification fixes them.
PeriodsPerYear(token) ==
  CASE token = "annually" -> 1
    [] token = "half-yearly" -> 2
    [] token = "quarterly" -> 4
    [] token = "monthly" -> 12

\* Every numeric field of the form is a finite number.
FiniteForm(raw) == \A path \in NumericFields : IsFinite(Number(raw[path]))

\* C9: maturityValue = principal * (1 + (rate / 100) / n) ^ (n * tenure), n the
\* periods per year of the token (annual 1, half-yearly 2, quarterly 4,
\* monthly 12), in the arithmetic of JavaScript numbers.
C9_MaturityFormula ==
  Computed =>
    LET v == Values(form)
        n == Num(PeriodsPerYear(form.compounding))
    IN results.maturityValue =
         Mul(v.principal,
             Pow(Add(One, Div(Div(v.rate, Num(100)), n)), Mul(n, v.years)))

\* A quarterly deposit was computed and grew to a finite maturity value.
C9_Witness ==
  /\ Computed
  /\ form.compounding = "quarterly"
  /\ IsFinite(results.maturityValue)
  /\ Lt(results.principal, results.maturityValue)

\* C3 (as claimed): for all valid requests, maturityValue = principal +
\* totalInterest exactly.
C3_SumIsExact ==
  (Computed /\ FiniteForm(form)) =>
    results.maturityValue = Add(results.principal, results.totalInterest)

\* C3 (amended): totalInterest is the rounded difference maturityValue -
\* principal; principal + totalInterest gives back maturityValue exactly
\* whenever both are finite and principal <= maturityValue <= 2 * principal
\* (the subtraction is then exact).
C3_DifferenceAndExactSumUpToDouble ==
  Computed =>
    /\ results.totalInterest = Sub(results.maturityValue, results.principal)
    /\ (/\ IsFinite(results.principal)
        /\ IsFinite(results.maturityValue)
        /\ Le(results.principal, results.maturityValue)
        /\ Le(results.maturityValue, Mul(Num(2), results.principal)))
         => results.maturityValue = Add(results.principal, results.totalInterest)

\* A deposit that earned interest without doubling, its sum exact.
C3_Witness ==
  /\ Computed
  /\ IsFinite(results.maturityValue)
  /\ ~IsZero(results.totalInterest)
  /\ Le(results.maturityValue, Mul(Num(2), results.principal))
  /\ results.maturityValue = Add(results.principal, results.totalInterest)

\* C4 (as claimed): every accepted request gives maturityValue >= principal
\* and totalInterest >= 0, and the result carries the input principal.
C4_ResultBounds ==
  Computed =>
    /\ Ge(results.maturityValue, results.principal)
    /\ Ge(results.totalInterest, Zero)
    /\ results.principal = Number(form.principal)

\* The form g is the form f with one field raised.
RaisedRate(f, g) ==
  /\ g = [f EXCEPT !.rate = g.rate]
  /\ Lt(Number(f.rate), Number(g.rate))

RaisedYears(f, g) ==
  /\ g = [f EXCEPT !.years = g.years]
  /\ Lt(Number(f.years), Number(g.years))

RaisedFrequency(f, g) ==
  /\ g = [f EXCEPT !.compounding = g.compounding]
  /\ PeriodsPerYear(f.compounding) < PeriodsPerYear(g.compounding)

\* The maturity value onSubmit computes for a valid form.
MaturityOf(raw) == onSubmit(Values(raw)).maturityValue

C10_ResultOfLastValidSubmission ==
  /\ results = Null
  /\ [][IF AllRulesPass(form')
         THEN results' = onSubmit(Values(form'))
         ELSE results' = results]_vars

\* A failed submission with the result of an earlier one still displayed.
C10_Witness ==
  /\ submitted
  /\ errors # {}
  /\ results # Null
====
